---------------------------- MODULE Spec2Model ----------------------------
(***************************************************************************)
(* Model of ingredient_parser/en/parser.py: the lazily loaded shared       *)
(* TAGGER, the parse_ingredient_en / inspect_parser_en pipeline (both have *)
(* the same statements up to the value returned) and                       *)
(* guess_ingredient_name.                                                  *)
(*                                                                         *)
(* Conventions.  Python lists are sequences, so Python index i is index    *)
(* i+1 here.  Confidences are floats in [0,1] in the code; they are        *)
(* modelled as integer percentages, so 0.2 is 20.  pycrfsuite's Tagger     *)
(* keeps the sequence of the last tag() call inside the tagger, and        *)
(* marginal(label, t) answers for that stored sequence; the variable cur   *)
(* is that stored sequence, one row of per-label marginals per position.   *)
(***************************************************************************)
EXTENDS Integers, Sequences, FiniteSets

\* ------------------------------------------------------------------ bounds

\* Longest sentence (in tokens) the sequential pipeline is run on.
MaxLen == 2
\* Longest label sequence guess_ingredient_name is called on directly.
GuessLen == 4
\* Longest sentence in the two-thread runs.
ConcLen == 1

\* The candidate threshold of guess_ingredient_name, 0.2, in percent.
Threshold == 20

\* ------------------------------------------------------------- value sets

Threads == {1, 2}

\* The label vocabulary, cut down to the two labels the code names and one
\* representative of every other label.
Labels == {"NAME", "UNIT", "COMMENT"}

\* One row of TAGGER's marginals: label -> confidence (percent).
Row(n, u, c) == [l \in Labels |-> IF l = "NAME" THEN n ELSE IF l = "UNIT" THEN u ELSE c]

\* What the tagger can answer at one position: the label tag() returns there
\* and the marginals it holds for that position.  NAME-confidences 19 / 20 /
\* 35 sit just below, on and above the threshold.
Outcomes ==
    { [label |-> "NAME",    marg |-> Row(70, 10, 20)],
      [label |-> "UNIT",    marg |-> Row(10, 60, 30)],
      [label |-> "UNIT",    marg |-> Row(20, 50, 30)],
      [label |-> "COMMENT", marg |-> Row(19, 21, 60)],
      [label |-> "COMMENT", marg |-> Row(35, 25, 40)] }

\* What PreProcessor can deliver at one position: the normalised token and
\* whether the position is listed in singularised_indices.
TokenKinds ==
    { [token |-> "cup",  sing |-> TRUE],
      [token |-> "cup",  sing |-> FALSE],
      [token |-> "salt", sing |-> FALSE] }

Positions == { [token |-> k.token, sing |-> k.sing, label |-> o.label, marg |-> o.marg] :
               k \in TokenKinds, o \in Outcomes }

SeqsUpTo(S, n) == UNION { [1..m -> S] : m \in 0..n }

\* A sentence together with what PreProcessor and the tagger make of it.
Sentences == SeqsUpTo(Positions, MaxLen)

\* The two-thread runs use plain tokens only.
ConcSentences ==
    SeqsUpTo({ p \in Positions : p.token = "salt" }, ConcLen)

\* ------------------------------------------------- collaborators' results

\* processed_sentence.tokenized_sentence
tokenized_sentence(s) == [i \in 1..Len(s) |-> s[i].token]

\* processed_sentence.singularised_indices
singularised_indices(s) == { i \in 1..Len(s) : s[i].sing }

\* The labels TAGGER.tag returns for the sentence's features.
tag_labels(s) == [i \in 1..Len(s) |-> s[i].label]

\* The sequence TAGGER holds after tag(): one row of marginals per position.
tag_state(s) == [i \in 1..Len(s) |-> s[i].marg]

\* _utils.pluralise_units on one token.
pluralise_units(token) == IF token = "cup" THEN "cups" ELSE token

\* TAGGER.marginal(label, i) is defined for the positions of the stored
\* sequence and raises ValueError outside them.
marginal_in_range(c, i) == i \in 1..Len(c)

marginal(c, label, i) == c[i][label]


\* ------------------------------------------------- guess_ingredient_name

Last(s) == s[Len(s)]

Front(s) == SubSeq(s, 1, Len(s) - 1)

Indices(s) == [i \in 1..Len(s) |-> i]

\* candidate_indices = [i for i, score in enumerate(name_scores) if score >= 0.2]
candidate_indices_strict(name_scores) ==
    LET keep(i) == name_scores[i] > Threshold
    IN  SelectSeq(Indices(name_scores), keep)

candidate_indices(name_scores) ==
    LET keep(i) == name_scores[i] >= Threshold
    IN  SelectSeq(Indices(name_scores), keep)

\* _common.group_consecutive_idx: the maximal runs of consecutive indices of
\* an ascending index list, in ascending order.
RECURSIVE group_consecutive_idx(_)
group_consecutive_idx(idx) ==
    IF idx = <<>> THEN <<>>
    ELSE LET prev == group_consecutive_idx(Front(idx))
             x    == Last(idx)
         IN  IF prev # <<>> /\ Last(Last(prev)) = x - 1
             THEN [prev EXCEPT ![Len(prev)] = Append(@, x)]
             ELSE Append(prev, <<x>>)

\* sorted(groups, key=len): Python's sort is stable and ascending.
RECURSIVE sorted_by_len(_)
sorted_by_len(groups) ==
    IF groups = <<>> THEN <<>>
    ELSE LET done == sorted_by_len(Front(groups))
             g    == Last(groups)
             p    == Cardinality({ j \in 1..Len(done) : Len(done[j]) <= Len(g) })
         IN  SubSeq(done, 1, p) \o <<g>> \o SubSeq(done, p + 1, Len(done))

Range(s) == { s[i] : i \in 1..Len(s) }

\* relabel that forgets scores[i] = name_scores[i].
relabel_labels_only(labels, scores, name_scores, indices) ==
    [ labels |-> [i \in 1..Len(labels) |->
                    IF i \in Range(indices) THEN "NAME" ELSE labels[i]],
      scores |-> scores ]

\* Lines 201-203: every index of the chosen group gets NAME and its
\* NAME-confidence.
relabel(labels, scores, name_scores, indices) ==
    [ labels |-> [i \in 1..Len(labels) |->
                    IF i \in Range(indices) THEN "NAME" ELSE labels[i]],
      scores |-> [i \in 1..Len(scores) |->
                    IF i \in Range(indices) THEN name_scores[i] ELSE scores[i]] ]

\* guess_ingredient_name that uses score > 0.2 for the candidates.
guess_strict_threshold(labels, scores, name_scores) ==
    LET cand == candidate_indices_strict(name_scores)
    IN  IF Len(cand) = 0
        THEN [labels |-> labels, scores |-> scores]
        ELSE relabel(labels, scores, name_scores,
                     sorted_by_len(group_consecutive_idx(cand))[1])

\* guess_ingredient_name that relabels every candidate, not one group.
guess_all_candidates(labels, scores, name_scores) ==
    LET cand == candidate_indices(name_scores)
    IN  IF Len(cand) = 0
        THEN [labels |-> labels, scores |-> scores]
        ELSE relabel(labels, scores, name_scores, cand)

\* guess_ingredient_name, lines 191-205, given name_scores (line 190):
\* indices = sorted(groups, key=len)[0].
guess_ingredient_name(labels, scores, name_scores) ==
    LET cand == candidate_indices(name_scores)
    IN  IF Len(cand) = 0
        THEN [labels |-> labels, scores |-> scores]
        ELSE relabel(labels, scores, name_scores,
                     sorted_by_len(group_consecutive_idx(cand))[1])

\* ------------------------------------------------------ pipeline helpers

\* all(label != "NAME" for label in labels)
always_guess(labels) == TRUE

no_name_assigned(labels) == \A i \in 1..Len(labels) : labels[i] # "NAME"

\* The loop of lines 74-78 that pluralises whatever the label is.
restore_plurals_any_label(tokens, labels, sing) ==
    [i \in 1..Len(tokens) |->
        IF i \in sing THEN pluralise_units(tokens[i]) ELSE tokens[i]]

\* The loop of lines 74-78 over singularised_indices.
restore_plurals(tokens, labels, sing) ==
    [i \in 1..Len(tokens) |->
        IF i \in sing /\ labels[i] # "UNIT"
        THEN pluralise_units(tokens[i]) ELSE tokens[i]]

\* The except clause of load_model_if_not_loaded: which probe failures
\* lead to a load.
catches_everything(exc) == exc # "none"

catches(exc) == exc = "RuntimeError"

\* What TAGGER.info() does: RuntimeError while no model is open.
info_result(isLoaded) == IF isLoaded THEN "none" ELSE "RuntimeError"


\* ------------------------------------------------------------------ state

VARIABLES
    artifact,   \* "ok" / "bad": whether model.en.crfsuite can be opened
    loaded,     \* TAGGER holds an open model (TAGGER.info() succeeds)
    cur,        \* the sequence stored in TAGGER by the last tag()
    opens,      \* number of TAGGER.open calls that opened the model
    pc,         \* per thread: where its parse_ingredient_en call stands
    loc         \* per thread: the locals of its call

vars == <<artifact, loaded, cur, opens, pc, loc>>

\* Cap on the counter opens.
MaxOpens == 3

blank ==
    [ sent        |-> <<>>,     \* the sentence being parsed
      tokens      |-> <<>>,
      labels      |-> <<>>,
      scores      |-> <<>>,
      name_scores |-> <<>>,
      gin         |-> [labels |-> <<>>, scores |-> <<>>],  \* arguments of guess_ingredient_name
      guessed     |-> FALSE,    \* guess_ingredient_name was called
      err         |-> "none",   \* which step raised
      loads       |-> 0 ]       \* TAGGER.open calls made by this call

\* Module import: TAGGER = pycrfsuite.Tagger(), nothing loaded, no caller.
Init ==
    /\ artifact \in {"ok", "bad"}
    /\ loaded = FALSE
    /\ cur = <<>>
    /\ opens = 0
    /\ pc = [t \in Threads |-> "idle"]
    /\ loc = [t \in Threads |-> blank]

\* ------------------------------------------- load_model_if_not_loaded

\* A caller enters parse_ingredient_en / inspect_parser_en.
Call(t) ==
    /\ pc[t] = "idle"
    /\ pc' = [pc EXCEPT ![t] = "probe"]
    /\ loc' = [loc EXCEPT ![t] = blank]
    /\ UNCHANGED <<artifact, loaded, cur, opens>>

\* TAGGER.info() either answers as the load state dictates or fails for
\* another reason (it writes a dump to a temporary file).
ProbeOutcomes == {info_result(loaded), "OtherError"}

\* try: TAGGER.info() succeeds: nothing to load.
ProbeReady(t) ==
    /\ pc[t] = "probe"
    /\ info_result(loaded) = "none"
    /\ pc' = [pc EXCEPT ![t] = "tag"]
    /\ UNCHANGED <<artifact, loaded, cur, opens, loc>>

\* except RuntimeError: go on to as_file(...) and TAGGER.open.
ProbeCaught(t) ==
    /\ pc[t] = "probe"
    /\ \E exc \in ProbeOutcomes : exc # "none" /\ catches(exc)
    /\ pc' = [pc EXCEPT ![t] = "open"]
    /\ UNCHANGED <<artifact, loaded, cur, opens, loc>>

\* Any other exception of the probe leaves load_model_if_not_loaded.
ProbeFails(t) ==
    /\ pc[t] = "probe"
    /\ \E exc \in ProbeOutcomes : exc # "none" /\ ~catches(exc)
    /\ pc' = [pc EXCEPT ![t] = "raised"]
    /\ loc' = [loc EXCEPT ![t].err = "probe"]
    /\ UNCHANGED <<artifact, loaded, cur, opens>>

\* TAGGER.open(str(p)) on a good artifact.  crfsuite's open closes the
\* model that is open, if any, and opens the file: the stored sequence of
\* the old tagger is gone.
OpenOk(t) ==
    /\ pc[t] = "open"
    /\ artifact = "ok"
    /\ opens < MaxOpens
    /\ loaded' = TRUE
    /\ cur' = <<>>
    /\ opens' = opens + 1
    /\ pc' = [pc EXCEPT ![t] = "tag"]
    /\ loc' = [loc EXCEPT ![t].loads = @ + 1]
    /\ UNCHANGED artifact

\* TAGGER.open(str(p)) on a missing or corrupt artifact raises before the
\* tagger is touched.
OpenFails(t) ==
    /\ pc[t] = "open"
    /\ artifact = "bad"
    /\ pc' = [pc EXCEPT ![t] = "raised"]
    /\ loc' = [loc EXCEPT ![t].loads = @ + 1, ![t].err = "load"]
    /\ UNCHANGED <<artifact, loaded, cur, opens>>

\* ---------------------------------------------------- parse_ingredient_en

\* Lines 67-69: PreProcessor(sentence), its tokens, and TAGGER.tag, which
\* stores the sequence in TAGGER and returns its labels.
Tag(t, s) ==
    /\ pc[t] = "tag"
    /\ loaded
    /\ cur' = tag_state(s)
    /\ loc' = [loc EXCEPT ![t].sent = s,
                          ![t].tokens = tokenized_sentence(s),
                          ![t].labels = tag_labels(s)]
    /\ pc' = [pc EXCEPT ![t] = IF Len(s) = 0 THEN "replural" ELSE "score"]
    /\ UNCHANGED <<artifact, loaded, opens>>

\* Line 70, one element of the comprehension: TAGGER.marginal(label, i)
\* for the next position, answered from the sequence TAGGER holds now.
Score(t) ==
    /\ pc[t] = "score"
    /\ LET k == Len(loc[t].scores) + 1
       IN  IF marginal_in_range(cur, k)
           THEN /\ loc' = [loc EXCEPT ![t].scores =
                              Append(@, marginal(cur, loc[t].labels[k], k))]
                /\ pc' = [pc EXCEPT ![t] =
                              IF k = Len(loc[t].labels) THEN "replural" ELSE "score"]
           ELSE /\ loc' = [loc EXCEPT ![t].err = "marginal"]
                /\ pc' = [pc EXCEPT ![t] = "raised"]
    /\ UNCHANGED <<artifact, loaded, cur, opens>>

\* Lines 74-80: the plural-restoration loop, then the test for a NAME label.
Repluralise(t) ==
    /\ pc[t] = "replural"
    /\ LET guess == no_name_assigned(loc[t].labels)
       IN  /\ loc' = [loc EXCEPT
                 ![t].tokens = restore_plurals(loc[t].tokens, loc[t].labels,
                                               singularised_indices(loc[t].sent)),
                 ![t].guessed = guess,
                 ![t].gin = IF guess
                            THEN [labels |-> loc[t].labels, scores |-> loc[t].scores]
                            ELSE @]
           /\ pc' = [pc EXCEPT ![t] =
                 IF ~guess THEN "post"
                 ELSE IF Len(loc[t].labels) = 0 THEN "select" ELSE "guess"]
    /\ UNCHANGED <<artifact, loaded, cur, opens>>

\* Line 190, one element of the comprehension: TAGGER.marginal("NAME", i).
NameScore(t) ==
    /\ pc[t] = "guess"
    /\ LET k == Len(loc[t].name_scores) + 1
       IN  IF marginal_in_range(cur, k)
           THEN /\ loc' = [loc EXCEPT ![t].name_scores =
                              Append(@, marginal(cur, "NAME", k))]
                /\ pc' = [pc EXCEPT ![t] =
                              IF k = Len(loc[t].labels) THEN "select" ELSE "guess"]
           ELSE /\ loc' = [loc EXCEPT ![t].err = "marginal"]
                /\ pc' = [pc EXCEPT ![t] = "raised"]
    /\ UNCHANGED <<artifact, loaded, cur, opens>>

\* Lines 191-205 and the assignment of line 82.
Select(t) ==
    /\ pc[t] = "select"
    /\ LET r == guess_ingredient_name(loc[t].labels, loc[t].scores,
                                      loc[t].name_scores)
       IN  loc' = [loc EXCEPT ![t].labels = r.labels, ![t].scores = r.scores]
    /\ pc' = [pc EXCEPT ![t] = "post"]
    /\ UNCHANGED <<artifact, loaded, cur, opens>>

\* Lines 84-93: PostProcessor is built from tokens, labels and scores and
\* the call returns.
Post(t) ==
    /\ pc[t] = "post"
    /\ pc' = [pc EXCEPT ![t] = "idle"]
    /\ loc' = [loc EXCEPT ![t] = blank]
    /\ UNCHANGED <<artifact, loaded, cur, opens>>

\* The exception leaves the call.
Raise(t) ==
    /\ pc[t] = "raised"
    /\ pc' = [pc EXCEPT ![t] = "idle"]
    /\ loc' = [loc EXCEPT ![t] = blank]
    /\ UNCHANGED <<artifact, loaded, cur, opens>>

\* --------------------------------------------------------- specifications

\* One caller, one call after another.
Next ==
    \/ Call(1)
    \/ ProbeReady(1)
    \/ ProbeCaught(1)
    \/ ProbeFails(1)
    \/ OpenOk(1)
    \/ OpenFails(1)
    \/ \E s \in Sentences : Tag(1, s)
    \/ Score(1)
    \/ Repluralise(1)
    \/ NameScore(1)
    \/ Select(1)
    \/ Post(1)
    \/ Raise(1)

Spec == Init /\ [][Next]_vars

\* Two threads; the interpreter may switch between them at any call.
NextConc ==
    \E t \in Threads :
        \/ Call(t)
        \/ ProbeReady(t)
        \/ ProbeCaught(t)
        \/ ProbeFails(t)
        \/ OpenOk(t)
        \/ OpenFails(t)
        \/ \E s \in ConcSentences : Tag(t, s)
        \/ Score(t)
        \/ Repluralise(t)
        \/ NameScore(t)
        \/ Select(t)
        \/ Post(t)
        \/ Raise(t)

SpecConc == Init /\ [][NextConc]_vars

\* guess_ingredient_name called on its own: TAGGER holds a sequence of the
\* length of the labels, the labels are arbitrary, the scores are pairwise
\* different values the function only copies.
GuessRows == { Row(19, 21, 60), Row(20, 50, 30), Row(35, 25, 40) }

InitGuess ==
    /\ artifact = "ok"
    /\ loaded = TRUE
    /\ opens = 1
    /\ cur \in SeqsUpTo(GuessRows, GuessLen)
    /\ pc = [t \in Threads |->
               IF t # 1 THEN "idle" ELSE IF Len(cur) = 0 THEN "select" ELSE "guess"]
    /\ \E labels \in [1..Len(cur) -> Labels] :
         LET scores == [i \in 1..Len(cur) |-> 50 + i]
         IN  loc = [t \in Threads |->
                      IF t # 1 THEN blank
                      ELSE [blank EXCEPT !.labels = labels,
                                         !.scores = scores,
                                         !.guessed = TRUE,
                                         !.gin = [labels |-> labels, scores |-> scores]]]

NextGuess ==
    \/ NameScore(1)
    \/ Select(1)

SpecGuess == InitGuess /\ [][NextGuess]_vars


\* ------------------------------------------------- vocabulary of the claims

\* The positions of a label sequence.
Pos(t) == 1..Len(loc[t].labels)

\* The call of thread t has passed load_model_if_not_loaded.
PastLoad(t) == pc[t] \in {"tag", "score", "replural", "guess", "select", "post"}

\* What the tagger says about the thread's own sentence.
OwnLabels(t) == tag_labels(loc[t].sent)

OwnScore(t, i) == loc[t].sent[i].marg[loc[t].sent[i].label]

OwnNameConf(t, i) == loc[t].sent[i].marg["NAME"]

TaggerGaveName(t) == \E i \in 1..Len(loc[t].sent) : OwnLabels(t)[i] = "NAME"

\* The candidate positions and their maximal runs, stated on the
\* confidences TAGGER holds rather than through the code's grouping.
Candidates(conf) == { i \in 1..Len(conf) : conf[i]["NAME"] >= Threshold }

IsRun(C, a, b) ==
    /\ a <= b
    /\ \A i \in a..b : i \in C
    /\ (a - 1) \notin C
    /\ (b + 1) \notin C

MaximalRuns(conf) ==
    { p[1]..p[2] : p \in { q \in (1..Len(conf)) \X (1..Len(conf)) :
                             IsRun(Candidates(conf), q[1], q[2]) } }

\* Run R was promoted: each of its positions carries NAME with its
\* NAME-confidence, every other position is as guess_ingredient_name got it.
Promoted(t, R) ==
    \A i \in Pos(t) :
        IF i \in R
        THEN /\ loc[t].labels[i] = "NAME"
             /\ loc[t].scores[i] = cur[i]["NAME"]
        ELSE /\ loc[t].labels[i] = loc[t].gin.labels[i]
             /\ loc[t].scores[i] = loc[t].gin.scores[i]

\* ------------------------------------------------------------------ claims

\* C1: with an artifact that loads, any number of sequential calls execute
\* TAGGER.open exactly once: the load path is entered only while nothing
\* has been opened, every call that gets past load_model_if_not_loaded
\* finds exactly one open done, and a call that found the tagger loaded
\* made no open itself.
C1_LoadExactlyOnce ==
    artifact = "ok" =>
        /\ opens <= 1
        /\ loaded <=> opens = 1
        /\ pc[1] = "open" => opens = 0
        /\ PastLoad(1) => opens = 1
        /\ loc[1].loads <= opens

\* A later call that went through with the single open already done.
C1_Witness ==
    /\ artifact = "ok"
    /\ pc[1] = "tag"
    /\ opens = 1
    /\ loc[1].loads = 0

\* C2: with two threads calling concurrently, TAGGER.open is executed at
\* most once and no thread is at a tag or marginal step while another
\* thread is on the load path.
C2_SingleOpenConcurrently ==
    /\ opens <= 1
    /\ \A t \in Threads, u \in Threads :
         (t # u /\ pc[t] = "open") => pc[u] \notin {"score", "guess"}

\* C3: the run guess_ingredient_name promotes is a longest run of
\* candidates.
C3_LongestRunPromoted ==
    pc[1] = "post" =>
        \A R \in MaximalRuns(cur) :
            Promoted(1, R) =>
                \A Q \in MaximalRuns(cur) : Cardinality(Q) <= Cardinality(R)

C5_PluralRestoration ==
    [][ pc[1] = "replural" =>
          /\ Len(loc'[1].tokens) = Len(loc[1].tokens)
          /\ \A i \in 1..Len(loc[1].tokens) :
               loc'[1].tokens[i] =
                  IF i \in singularised_indices(loc[1].sent)
                     /\ OwnLabels(1)[i] # "UNIT"
                  THEN pluralise_units(tokenized_sentence(loc[1].sent)[i])
                  ELSE tokenized_sentence(loc[1].sent)[i]
          /\ loc'[1].labels = loc[1].labels
          /\ loc'[1].scores = loc[1].scores ]_vars

\* After the loop: one singularised token was pluralised, another, labelled
\* UNIT, kept its singular form.
C5_Witness ==
    /\ pc[1] = "post"
    /\ \E i \in Pos(1), j \in Pos(1) :
         /\ i \in singularised_indices(loc[1].sent)
         /\ OwnLabels(1)[i] # "UNIT"
         /\ loc[1].tokens[i] = "cups"
         /\ j \in singularised_indices(loc[1].sent)
         /\ OwnLabels(1)[j] = "UNIT"
         /\ loc[1].tokens[j] = "cup"

\* What a call on sentence s yields when it runs alone.
AloneScores(s) == [i \in 1..Len(s) |-> s[i].marg[s[i].label]]

AloneResult(s) ==
    IF no_name_assigned(tag_labels(s))
    THEN guess_ingredient_name(tag_labels(s), AloneScores(s),
                               [i \in 1..Len(s) |-> s[i].marg["NAME"]])
    ELSE [labels |-> tag_labels(s), scores |-> AloneScores(s)]

\* C6: concurrent calls that all found the tagger loaded (the one open was
\* made by an earlier call) do not interfere: each call reaches
\* PostProcessor with the labels and scores of its own sentence, and none
\* fails in a marginal step.
C6_NoInterference ==
    (opens = 1 /\ \A u \in Threads : loc[u].loads = 0) =>
        \A t \in Threads :
            /\ pc[t] = "post" =>
                  /\ loc[t].labels = AloneResult(loc[t].sent).labels
                  /\ loc[t].scores = AloneResult(loc[t].sent).scores
            /\ pc[t] = "raised" => loc[t].err # "marginal"

\* C7: the load path is entered only on the not-loaded failure of the
\* probe; another failure of the probe leaves the call with no open
\* attempted; a failed open leaves the call at once, after a single
\* attempt, before any tag step and with the tagger unloaded.
C7_LoadErrorHandling ==
    /\ pc[1] = "open" => ~loaded
    /\ loc[1].loads <= 1
    /\ (pc[1] = "raised" /\ loc[1].err = "probe") => loc[1].loads = 0
    /\ (pc[1] = "raised" /\ loc[1].err = "load") =>
          /\ loc[1].loads = 1
          /\ ~loaded
          /\ opens = 0
          /\ loc[1].sent = <<>> /\ loc[1].labels = <<>> /\ cur = <<>>
    /\ artifact = "bad" => (~loaded /\ ~PastLoad(1))

\* The open failed and its error is leaving the call.
C7_Witness ==
    /\ pc[1] = "raised"
    /\ loc[1].err = "load"

C9_GuessOnlyWithoutName ==
    /\ pc[1] \in {"guess", "select"} => (loc[1].guessed /\ ~TaggerGaveName(1))
    /\ pc[1] = "post" =>
          /\ loc[1].guessed <=> ~TaggerGaveName(1)
          /\ TaggerGaveName(1) =>
                /\ loc[1].labels = OwnLabels(1)
                /\ loc[1].scores = [i \in Pos(1) |-> OwnScore(1, i)]

\* The tagger gave NAME to one token while another, not NAME, had a
\* NAME-confidence above the threshold: it is handed on as it was.
C9_Witness ==
    /\ pc[1] = "post"
    /\ ~loc[1].guessed
    /\ \E i \in Pos(1) :
         /\ loc[1].labels[i] # "NAME"
         /\ OwnNameConf(1, i) >= Threshold

\* C10: when PostProcessor is built, tokens, labels and scores have one
\* length and each score is the tagger's marginal of the final label at
\* its position.
C10_ScoresMatchFinalLabels ==
    pc[1] = "post" =>
        /\ Len(loc[1].tokens) = Len(loc[1].labels)
        /\ Len(loc[1].scores) = Len(loc[1].labels)
        /\ Len(loc[1].sent) = Len(loc[1].labels)
        /\ \A i \in Pos(1) :
             loc[1].scores[i] = marginal(tag_state(loc[1].sent), loc[1].labels[i], i)

\* A position the guess overwrote: its label is no longer the tagger's.
C10_Witness ==
    /\ pc[1] = "post"
    /\ loc[1].guessed
    /\ \E i \in Pos(1) :
         /\ loc[1].labels[i] # OwnLabels(1)[i]
         /\ loc[1].scores[i] # OwnScore(1, i)

=============================================================================
